---- MODULE Spec2Model ----
(***************************************************************************)
(* Model of the SCRA automation server (stratten/Military-Search-Server). *)
(*                                                                         *)
(* Eleven state machines share the module:                                 *)
(*   Spec          concurrent invocations of runScraAutomation on the      *)
(*                 process-wide browser state (unnamed/part_006);          *)
(*   SpecRetry     one call of retry(fn, maxRetries, initialDelay,         *)
(*                 maxDelay);                                              *)
(*   SpecClassify  the line-scanning classifier applied to one extracted   *)
(*                 text;                                                   *)
(*   SpecRequest   what one request's subject identifier becomes in the    *)
(*                 form fields and in the error report;                    *)
(*   SpecErrorLog  logs/error_log.json over a sequence of failing runs;    *)
(*   SpecRetryRecursive  the recursive retry of the oldest copy            *)
(*                 (src/scraAutomation.js);                                *)
(*   SpecConsent   the strategies for the terms checkbox;                  *)
(*   SpecNetworkLog  network_log.json under the page's network events;     *)
(*   SpecServer    the /scra-request handler in the copies of the server;  *)
(*   SpecCallbackUrl  the callback URL from the request to the POST;       *)
(*   SpecRunFolder  a run folder's name and the endpoints that read it.    *)
(* Node.js runs one callback at a time, so an action is code a run         *)
(* executes without another callback in between.  Inside initBrowser each  *)
(* await is a step of its own; after it a step is one stage on the page,   *)
(* together with the catch blocks an error of that stage passes through    *)
(* (their screenshots, the error report).                                  *)
(***************************************************************************)
EXTENDS Integers, Sequences, FiniteSets, TLC

VARIABLES
  scenario,                    \* what the environment does in this behaviour
  tick,                        \* the number of clock instants passed
  now,                         \* the wall clock, ms (Date.now(), new Date())
  processExited,               \* process.exit(1) was called by a safety timer
  globalBrowser,               \* part_006:13
  browserOperationInProgress,  \* part_006:14
  browserOperationStartTime,   \* part_006:15
  launchedBy,                  \* browser handle -> the run whose launch made the
                               \* open browser process behind it, or Null
  outputs,                     \* the run directories under OUTPUTS_DIR
  files,                       \* <<directory, file name>> of the documents and JSON records
  errorLog,                    \* logs/error_log.json, a JSON array
  run,                         \* per invocation: locals of runScraAutomation
  rt,                          \* the retry machine (SpecRetry)
  cl,                          \* the classifier machine (SpecClassify)
  rq,                          \* the request machine (SpecRequest)
  lg,                          \* the error-log machine (SpecErrorLog)
  cs,                          \* the consent machine (SpecConsent)
  nl,                          \* the network log machine (SpecNetworkLog)
  sv,                          \* the request handler machine (SpecServer)
  cb,                          \* the callback URL of a request (SpecCallbackUrl)
  rf                           \* a run folder and its read endpoints (SpecRunFolder)

pipelineVars == <<scenario, tick, now, processExited, globalBrowser, browserOperationInProgress,
                  browserOperationStartTime, launchedBy, outputs,
                  files, errorLog, run>>
vars == <<scenario, tick, now, processExited, globalBrowser, browserOperationInProgress,
          browserOperationStartTime, launchedBy, outputs,
          files, errorLog, run, rt, cl, rq, lg, cs, nl, sv, cb, rf>>

----------------------------------------------------------------------------
(* Bounds of the model *)

\* The clock is read at MaxTicks + 1 instants.
MaxTicks == 2
\* At most MaxBrowsers browser handles are in use at a time.
MaxBrowsers == 2

\* The concurrent invocations of runScraAutomation, in the order they are made.
Runs == {"r1", "r2"}
Earlier(r) == IF r = "r2" THEN {"r1"} ELSE {}

\* The behaviours explored: two overlapping invocations against pages that
\* fail only once their browser is closed ("concurrent"), or one invocation
\* against pages that may fail at any step ("faulty").  Launches, health
\* checks and the callback receiver may fail in both.
Scenarios == {"concurrent", "faulty"}

\* JavaScript null / undefined.
Null == "null"

----------------------------------------------------------------------------
(* Program constants *)

BROWSER_OPERATION_TIMEOUT_MS == 30000
\* initBrowser(3)
LaunchAttempts == 3
\* setupSafetyTimeout(30000), then setupSafetyTimeout(120000)
ShortSafetyMs == 30000
LongSafetyMs == 120000
\* retry(..., 3, 1000, 60000, ...) around the navigation
NavMaxRetries == 3
\* errorLog.slice(-100)
ErrorLogCap == 100

\* The instants at which the clock is read: the start, the staleness
\* threshold after it, and each millisecond after that.
Instant(k) == IF k = 0 THEN 0 ELSE BROWSER_OPERATION_TIMEOUT_MS + (k - 1)

\* setTimeout(callback, ms): the handle is the instant the timer is due.  A
\* timer due after the last instant of the model never fires in it; all such
\* handles are the same value.
NeverDue == Instant(MaxTicks) + 1
setTimeout(t, ms) == IF t + ms > Instant(MaxTicks) THEN NeverDue ELSE t + ms

\* The callback URLs a request may carry (falsy: the delivery is skipped).
EndpointUrls == {Null, "https://sf.example/cb"}

----------------------------------------------------------------------------
(* Values *)

\* A null browser handle, a cleared timer handle, a run folder not yet made.
NullBrowser == 0
NoTimer == -1
NoFolder == [prefix |-> "none", seconds |-> 0, millis |-> 0]

\* new Date().toISOString().replace(/[:.]/g, '-'): the fields of the ISO
\* timestamp down to its milliseconds, the separators replaced by '-'.
\* path.join(OUTPUTS_DIR, `run-${timestamp}`) names the run folder.
RunFolderName(t) == [prefix |-> "run", seconds |-> t \div 1000, millis |-> t % 1000]

\* Error messages, outermost first: new Error(`msg: ${cause.message}`).
NoError == <<>>
PlaywrightError == <<"playwright: operation failed">>
LockError == <<"Could not get browser lock - another browser operation is in progress">>
LaunchError == <<"Failed to initialize browser after 3 attempts">>
ExistsError == <<"EEXIST: file already exists, mkdir">>
NavFinalError == <<"Failed to navigate to SCRA site after 3 attempts">>
NavWrap == "Failed to navigate to SCRA site"
LoginWrap == "Login failed"
CheckboxError == <<"I Accept checkbox not found or not interactable after multiple attempts.">>
SubmitWrap == "Form submission failed"
SendWrap == "Failed to send results"
PostStatusError == <<"Request failed with status code 500">>
PostTransportError == <<"connect ECONNREFUSED">>

\* The locals of one invocation of runScraAutomation before it starts.
InitRun ==
  [pc |-> "idle", endpointUrl |-> Null, browser |-> NullBrowser, i |-> 0,
   pending |-> NullBrowser, runFolder |-> NoFolder, safetyTimeout |-> NoTimer,
   retries |-> 0, waits |-> <<>>, content |-> Null, errorShot |-> Null,
   err |-> NoError,
   proofOfMilitaryServiceFound |-> Null, posts |-> 0, postResp |-> Null,
   isHtmlResponse |-> FALSE, delivery |-> Null, outcome |-> "pending",
   result |-> [proofOfMilitaryServiceFound |-> Null, pdfFileName |-> Null],
   sfPayload |-> [proofOfMilitaryServiceFound |-> Null, pdfBase64 |-> Null],
   callbackError |-> [message |-> NoError, endpoint |-> Null],
   tryBlock |-> "none"]

\* The browser handles, and those with an open browser process behind them.
BrowserIds == 1..MaxBrowsers
openBrowsers == {b \in BrowserIds : launchedBy[b] # Null}
\* browser.close() on handle b (a no-op on a closed or null handle).
closed(b) == [c \in BrowserIds |-> IF c = b THEN Null ELSE launchedBy[c]]
\* A handle nothing refers to any more names the next browser launched.
freeBrowsers ==
  BrowserIds \ (openBrowsers \cup {globalBrowser}
                  \cup {run[q].browser : q \in Runs}
                  \cup {run[q].pending : q \in Runs})

\* array.slice(-n): the last n elements.
SliceLast(s, n) == IF Len(s) <= n THEN s ELSE SubSeq(s, Len(s) - n + 1, Len(s))

\* The outcomes of a page operation of run r (goto, fill, click, screenshot
\* ...): it fails when the run's browser has been closed; on an open browser
\* it succeeds, or fails on its own where the scenario has such faults.
PageOp(r) ==
  IF run[r].browser \notin openBrowsers THEN {FALSE}
  ELSE IF scenario = "faulty" THEN {TRUE, FALSE}
  ELSE {TRUE}

\* catch (e) { await page.screenshot(...); throw new Error(`${msg}: ${e.message}`) }
\* the wrapped error when the screenshot succeeds, the screenshot's own error
\* when it throws.
CatchWrap(r, msg, errs) ==
  {IF s THEN <<msg>> \o e ELSE PlaywrightError : s \in PageOp(r), e \in errs}

\* catch (e) { await page.screenshot(...); throw e }
CatchRethrow(r, errs) ==
  {IF s THEN e ELSE PlaywrightError : s \in PageOp(r), e \in errs}

Set(r, rec) == run' = [run EXCEPT ![r] = rec]

----------------------------------------------------------------------------
(* The document classifier, part_006:559-574 *)

\* The extracted text is modelled by its lines (pdfText.split(/\r?\n/)), a
\* line by the set of tokens on it.  "--" stands for text without a word
\* character, "Army" for a value that is not a placeholder.
Tokens == {"Start Date", "Service Component", "NA", "No", "Army", "--"}

\* /Start Date/i.test(line)
HasStartDate(line) == "Start Date" \in line
\* /Service Component/i.test(line)
HasServiceComponent(line) == "Service Component" \in line
\* /\b(NA|No)\b/i.test(line)
HasPlaceholder(line) == line \cap {"NA", "No"} # {}
\* /\w/.test(line)
HasWordChar(line) == line \ {"--"} # {}

\* A table that no 'Service Component' line closes.
inTableAfter_neverCloses(line, inTable) == HasStartDate(line) \/ inTable

\* inTable after the two assignments at the top of the loop body.
inTableAfter(line, inTable) ==
  (HasStartDate(line) \/ inTable) /\ ~HasServiceComponent(line)

\* The for loop over the lines from line k on, inTable as the loop left it.
RECURSIVE scanLines(_, _, _)
scanLines(lines, k, inTable) ==
  IF k > Len(lines) THEN "No"
  ELSE LET line == lines[k]
           inside == inTableAfter(line, inTable)
       IN IF inside /\ ~HasPlaceholder(line) /\ HasWordChar(line)
          THEN "Yes"
          ELSE scanLines(lines, k + 1, inside)

proofOfMilitaryServiceFound(lines) == scanLines(lines, 1, FALSE)

\* A renaming that gives every document the name of the negative outcome.
finalPdfName_fixed(found) == "AFFIRMATION - Affirmation of Non Military.pdf"

\* The name the document is renamed to.
finalPdfName(found) ==
  IF found = "No" THEN "AFFIRMATION - Affirmation of Non Military.pdf"
  ELSE "firstName lastName - Proof of Military Service.pdf"

\* What result.json holds.
resultJson(found) ==
  [proofOfMilitaryServiceFound |-> found, pdfFileName |-> finalPdfName(found)]

\* The payload of the callback; pdfBase64 is read from the renamed document
\* (it is represented by the name of the file that was read).
sfPayload(found) ==
  [proofOfMilitaryServiceFound |-> found, pdfBase64 |-> finalPdfName(found)]

\* The documents the remote site returns in the pipeline.
SampleTexts ==
  { << {"Start Date", "Service Component"}, {"NA", "No"} >>,
    << {"Start Date", "NA"}, {"Army"}, {"Service Component"} >> }

\* The extracted texts the classifier is run on: up to MaxLines lines.
MaxLines == 2
Texts == UNION {[1..n -> SUBSET Tokens] : n \in 0..MaxLines}

----------------------------------------------------------------------------
(* The retry engine, part_006:97-119 *)

\* The largest maxRetries a call is made with.
MaxRetries == 2

\* Delays are counted in 1/Unit ms, and the sampled arguments and jitters
\* are whole milliseconds, so that every product by 1.5 is a whole number.
Unit == 2 ^ MaxRetries
InitialDelays == {0, 1000 * Unit, 5000 * Unit}
MaxDelays == {0 - 1000 * Unit, 0, 2000 * Unit, 60000 * Unit}
\* Math.random() * 1000 lies in [0, 1000).
Jitters == {0, 500 * Unit, 999 * Unit}

\* Errors are numbered: the k-th call of fn rejects with errorOf(k), the
\* caller's finalError is OverrideError, NoErr stands for null.
NoErr == 0
OverrideError == 0 - 1
errorOf(k) == k
FinalErrors == {NoErr, OverrideError}

\* finalError || error
orElse(finalError, error) == IF finalError # NoErr THEN finalError ELSE error

Min(a, b) == IF a <= b THEN a ELSE b

\* A loop that gives up one failure early.
retryGivesUp_early(retries, maxRetries) == retries >= maxRetries

\* if (retries > maxRetries) throw finalError || error
retryGivesUp(retries, maxRetries) == retries > maxRetries

\* A retry that waits the same delay before every attempt.
nextDelay_fixed(delay, jitter, maxDelay) == Min(delay, maxDelay)

\* A backoff without its cap.
nextDelay_uncapped(delay, jitter, maxDelay) == (delay * 3) \div 2 + jitter

\* delay = Math.min(delay * 1.5 + jitter, maxDelay)
nextDelay(delay, jitter, maxDelay) == Min((delay * 3) \div 2 + jitter, maxDelay)

----------------------------------------------------------------------------
(* The fields of a request *)

\* Strings are sequences of characters.  The subject identifiers of the
\* model: digits and formatting characters, up to MaxSsnLen of them.
MaxSsnLen == 5

\* The failing runs that append to the central error log in SpecErrorLog.
MaxWrites == 3

\* The length of a callback URL in SpecCallbackUrl, in pieces of text.
MaxUrlLen == 4

\* The network events of one page in SpecNetworkLog.
MaxEvents == 3

\* The checkboxes on the page in SpecConsent.
MaxCheckboxes == 3
Digits == {"0", "1", "2", "3", "4", "5", "6", "7", "8", "9"}
SsnChars == {"1", "2", "-"}
Ssns == UNION {[1..n -> SsnChars] : n \in 0..MaxSsnLen}

\* /\D/ matches a character that is not one of 0-9.
IsNonDigit(c) == c \notin Digits

\* ssn.replace(/\D/, ''): only the first non-digit goes.
cleanedSsn_first(ssn) ==
  IF \A k \in 1..Len(ssn) : ~IsNonDigit(ssn[k]) THEN ssn
  ELSE LET f == CHOOSE k \in 1..Len(ssn) :
                  IsNonDigit(ssn[k]) /\ \A j \in 1..(k - 1) : ~IsNonDigit(ssn[j])
       IN SubSeq(ssn, 1, f - 1) \o SubSeq(ssn, f + 1, Len(ssn))

\* const cleanedSsn = ssn.replace(/\D/g, ''): every match is replaced by the
\* empty string.
cleanedSsn(ssn) == SelectSeq(ssn, LAMBDA c : ~IsNonDigit(c))

\* The other fields of a request that the error report looks at.
Dobs == {Null, "01/02/1990"}
Passwords == {"password-1", "password-2"}

Mask == <<"*", "*", "*", "-", "*", "*", "-">>
NoContext == [ssn |-> <<>>, dob |-> Null]

\* A mask that keeps every digit of the identifier.
maskedSsn_unsliced(ssn) == IF ssn # <<>> THEN Mask \o cleanedSsn(ssn) ELSE <<"MISSING">>

\* ssn ? '***-**-' + ssn.replace(/\D/g, '').slice(-4) : 'MISSING'
maskedSsn(ssn) ==
  IF ssn # <<>> THEN Mask \o SliceLast(cleanedSsn(ssn), 4) ELSE <<"MISSING">>

\* errorReport.context for the request req (matterId, which is written as it
\* came, and hasEndpointUrl are left to the pipeline).
reportContext(req) ==
  [ssn |-> maskedSsn(req.ssn),
   dob |-> IF req.dob # Null THEN "PROVIDED" ELSE "NOT PROVIDED"]

----------------------------------------------------------------------------
(* Initial states *)

RtIdle == [pc |-> "idle", maxRetries |-> 0, initialDelay |-> 0, maxDelay |-> 0,
           retries |-> 0, delay |-> 0, calls |-> 0, waits |-> <<>>,
           finalError |-> 0, thrown |-> 0]
ClIdle == [pc |-> "idle", text |-> <<>>, found |-> Null]
CsIdle == [pc |-> "idle", checkboxes |-> 0, k |-> 0, checkboxFound |-> FALSE,
           tried |-> <<>>, err |-> NoError]
NlIdle == [networkEvents |-> <<>>, file |-> <<>>, previous |-> <<>>]
Requests == {"q1", "q2"}
SvRequest == [pc |-> "idle", body |-> Null, responses |-> <<>>, run |-> "none",
              handled |-> FALSE, unhandledRejection |-> FALSE]
SvIdle == [version |-> Null, req |-> [q \in Requests |-> SvRequest]]
CbIdle == [pc |-> "idle", callbackUrl |-> <<>>, effectiveCallbackUrl |-> <<>>]
RfIdle == [pc |-> "idle", timestamp |-> <<>>, runFolder |-> <<>>, status |-> 0]
LgIdle == [errorLog |-> <<>>, appended |-> <<>>, writes |-> 0]
RqIdle == [pc |-> "idle", ssn |-> <<>>, dob |-> Null, scraPassword |-> Null,
           ssnInput |-> <<>>, ssnConfirmationInput |-> <<>>,
           errorReport |-> [message |-> NoError, context |-> NoContext]]

\* The process after the module is loaded: no browser, no run started.
InitProcess ==
  /\ tick = 0
  /\ now = Instant(0)
  /\ processExited = FALSE
  /\ globalBrowser = NullBrowser
  /\ browserOperationInProgress = FALSE
  /\ browserOperationStartTime = 0
  /\ launchedBy = [b \in BrowserIds |-> Null]
  /\ outputs = {}
  /\ files = {}
  /\ errorLog = <<>>
  /\ run = [r \in Runs |-> InitRun]

Init ==
  /\ scenario \in Scenarios
  /\ InitProcess
  /\ rt = RtIdle
  /\ cl = ClIdle
  /\ rq = RqIdle
  /\ lg = LgIdle
  /\ cs = CsIdle
  /\ nl = NlIdle
  /\ sv = SvIdle
  /\ cb = CbIdle
  /\ rf = RfIdle

----------------------------------------------------------------------------
(* The outer catch and finally of runScraAutomation, part_006:702-790 *)

\* The entry of the error report; the identifier is masked to its last four
\* digits and the callback URL reduced to a flag.
errorReport(r, rec) ==
  [run |-> r, message |-> rec.err, hasEndpointUrl |-> rec.endpointUrl # Null]

\* The try block around the code at pc whose catch throws a new Error around
\* the one it caught: the navigation (353-375), the login (405-428), the
\* submission with the download and the callback (535-690); "outer" where
\* only the try block of runScraAutomation is around.
tryBlock(pc) ==
  IF pc \in {"probe", "nav"} THEN "navigation"
  ELSE IF pc = "login" THEN "login"
  ELSE IF pc \in {"submit", "classify", "deliver"} THEN "submission"
  ELSE "outer"

\* The screenshot that the catch block around the stage at pc takes before
\* it throws again: catch (navError) 370, catch (loginError) 423,
\* catch (checkboxError) 696, catch (downloadError) 685.  Null where only
\* catch (err) of runScraAutomation is around, whose screenshot is
\* screenshot_on_error.png for every stage.
stageScreenshot(pc) ==
  IF pc \in {"probe", "nav"} THEN "screenshot_nav_error.png"
  ELSE IF pc = "login" THEN "screenshot_login_error.png"
  ELSE IF pc = "consent" THEN "screenshot_checkbox_error.png"
  ELSE IF pc \in {"submit", "classify", "deliver"} THEN "screenshot_download_error.png"
  ELSE Null

\* A log written from the run's own report alone.
appendErrorLog_overwrite(log, report) == <<report>>

\* A log that keeps its first n entries.
appendErrorLog_head(log, report) ==
  LET all == Append(log, report)
  IN IF Len(all) > ErrorLogCap THEN SubSeq(all, 1, ErrorLogCap) ELSE all

\* errorLog.push(errorReport); if (errorLog.length > 100) errorLog =
\* errorLog.slice(-100)
appendErrorLog(log, report) ==
  LET all == Append(log, report)
  IN IF Len(all) > ErrorLogCap THEN SliceLast(all, ErrorLogCap) ELSE all

\* catch (err) for the run whose locals are rec, e thrown and written the
\* files on disk: after the best-effort screenshot, error_report.json is
\* written and the report appended to the central error log (the last 100 are
\* kept); err is rethrown.  finally: the safety timer is cleared, and a run
\* that holds a browser awaits its close, another one settles at once.
\* tryBlock keeps where the error was thrown.
handleError(r, rec, e, written) ==
  LET failed == [rec EXCEPT !.err = e, !.safetyTimeout = NoTimer,
                            !.tryBlock = tryBlock(rec.pc),
                            !.errorShot = stageScreenshot(rec.pc)]
  IN /\ files' = written \cup {<<rec.runFolder, "error_report.json">>}
     /\ errorLog' = appendErrorLog(errorLog, errorReport(r, failed))
     /\ Set(r, IF rec.browser = NullBrowser
               THEN [failed EXCEPT !.pc = "done", !.outcome = "rejected"]
               ELSE [failed EXCEPT !.pc = "closing"])

\* A step of run r that ends without an error and writes no file.
Advance(r, rec) == Set(r, rec) /\ UNCHANGED <<files, errorLog>>

\* finally: await browser.close() returns.  Then the promise settles:
\* rejected with err, or resolved.
closeBrowser(r) ==
  /\ ~processExited
  /\ run[r].pc = "closing"
  /\ launchedBy' = closed(run[r].browser)
  /\ Set(r, [run[r] EXCEPT !.pc = "done", !.browser = NullBrowser,
                           !.outcome = IF run[r].err = NoError THEN "resolved"
                                       ELSE "rejected"])
  /\ UNCHANGED <<scenario, tick, now, processExited, globalBrowser,
                 browserOperationInProgress, browserOperationStartTime,
                 outputs, files, errorLog, rt, cl, rq, lg, cs, nl, sv, cb, rf>>

----------------------------------------------------------------------------
(* withBrowserLock and initBrowser, part_006:19-94 *)

\* A staleness test that already gives way when the threshold is reached.
lockIsStale_atThreshold ==
  now - browserOperationStartTime >= BROWSER_OPERATION_TIMEOUT_MS

\* operationTimeMs > BROWSER_OPERATION_TIMEOUT_MS
lockIsStale == now - browserOperationStartTime > BROWSER_OPERATION_TIMEOUT_MS

\* withBrowserLock runs the operation unless the flag is set and not stale.
lockAdmits == ~browserOperationInProgress \/ lockIsStale

\* A lock that is released after the operation returned, not after it threw.
withBrowserLock_noFinally(threw) == threw

\* finally { browserOperationInProgress = false }: the flag after the
\* operation has returned or thrown.
withBrowserLock_finally(threw) == FALSE

\* The top of initBrowser's loop for run r, whose locals become rec: an
\* existing global browser is closed first, otherwise the launch is issued.
initBrowser_attempt(r, rec) ==
  /\ IF globalBrowser # NullBrowser
     THEN /\ launchedBy' = closed(globalBrowser)
          /\ Set(r, [rec EXCEPT !.pc = "init_close"])
     ELSE /\ launchedBy' = launchedBy
          /\ Set(r, [rec EXCEPT !.pc = "init_launch"])
  /\ UNCHANGED <<files, errorLog>>

\* initBrowser's catch: the last attempt throws through withBrowserLock's
\* finally into runScraAutomation's catch; an earlier one waits 1 s.
initBrowser_catch(r) ==
  IF run[r].i = LaunchAttempts - 1
  THEN /\ browserOperationInProgress' = withBrowserLock_finally(TRUE)
       /\ handleError(r, [run[r] EXCEPT !.i = 0, !.pending = NullBrowser],
                      LaunchError, files)
  ELSE /\ browserOperationInProgress' = browserOperationInProgress
       /\ Advance(r, [run[r] EXCEPT !.pc = "init_wait"])

\* runScraAutomation from its entry to its first suspension: the safety
\* timer, createRunFolder, and withBrowserLock up to initBrowser's first await.
runScraAutomation(r) ==
  /\ ~processExited
  /\ run[r].pc = "idle"
  /\ \A q \in Earlier(r) : scenario = "concurrent" /\ run[q].pc # "idle"
  /\ \E url \in EndpointUrls :
       LET folder == RunFolderName(now)
           started == [run[r] EXCEPT !.endpointUrl = url,
                                     !.safetyTimeout = setTimeout(now, ShortSafetyMs)]
       IN IF folder \in outputs
          THEN \* fs.mkdirSync throws before the try block is entered
               /\ Advance(r, [started EXCEPT !.pc = "done", !.err = ExistsError,
                                             !.outcome = "rejected"])
               /\ UNCHANGED <<outputs, launchedBy, browserOperationInProgress,
                              browserOperationStartTime>>
          ELSE /\ outputs' = outputs \cup {folder}
               /\ IF lockAdmits
                  THEN /\ browserOperationInProgress' = TRUE
                       /\ browserOperationStartTime' = now
                       /\ initBrowser_attempt(r, [started EXCEPT !.runFolder = folder])
                  ELSE \* withBrowserLock returns null
                       /\ handleError(r, [started EXCEPT !.runFolder = folder],
                                      LockError, files)
                       /\ UNCHANGED <<launchedBy, browserOperationInProgress,
                                      browserOperationStartTime>>
  /\ UNCHANGED <<scenario, tick, now, processExited, globalBrowser, rt, cl, rq, lg, cs, nl, sv, cb, rf>>

\* await globalBrowser.close() returns: globalBrowser = null, launch issued.
initBrowser_closed(r) ==
  /\ ~processExited
  /\ run[r].pc = "init_close"
  /\ globalBrowser' = NullBrowser
  /\ Advance(r, [run[r] EXCEPT !.pc = "init_launch"])
  /\ UNCHANGED <<scenario, tick, now, processExited, browserOperationInProgress,
                 browserOperationStartTime, launchedBy, outputs, rt, cl, rq, lg, cs, nl, sv, cb, rf>>

\* await firefox.launch() settles; on success the health check is issued.
initBrowser_launched(r) ==
  /\ ~processExited
  /\ run[r].pc = "init_launch"
  /\ \/ /\ freeBrowsers # {}
        /\ LET b == CHOOSE c \in freeBrowsers : \A d \in freeBrowsers : c <= d
           IN /\ launchedBy' = [launchedBy EXCEPT ![b] = r]
              /\ globalBrowser' = b
              /\ Advance(r, [run[r] EXCEPT !.pc = "init_health", !.pending = b])
        /\ UNCHANGED browserOperationInProgress
     \/ /\ initBrowser_catch(r)
        /\ UNCHANGED <<launchedBy, globalBrowser>>
  /\ UNCHANGED <<scenario, tick, now, processExited, browserOperationStartTime,
                 outputs, rt, cl, rq, lg, cs, nl, sv, cb, rf>>

\* The health check (newContext, close) settles; on success initBrowser
\* returns globalBrowser through withBrowserLock's finally, and a null
\* result makes runScraAutomation throw.
initBrowser_checked(r) ==
  /\ ~processExited
  /\ run[r].pc = "init_health"
  /\ \/ /\ run[r].pending \in openBrowsers
        /\ browserOperationInProgress' = withBrowserLock_finally(FALSE)
        /\ LET rec == [run[r] EXCEPT !.i = 0, !.pending = NullBrowser]
           IN IF globalBrowser = NullBrowser
              THEN handleError(r, rec, LockError, files)
              ELSE Advance(r, [rec EXCEPT !.pc = "context",
                                          !.browser = globalBrowser])
     \/ initBrowser_catch(r)
  /\ UNCHANGED <<scenario, tick, now, processExited, globalBrowser,
                 browserOperationStartTime, launchedBy, outputs, rt, cl, rq, lg, cs, nl, sv, cb, rf>>

\* The 1 s pause after a failed attempt is over: the next attempt starts.
initBrowser_retry(r) ==
  /\ ~processExited
  /\ run[r].pc = "init_wait"
  /\ initBrowser_attempt(r, [run[r] EXCEPT !.i = @ + 1])
  /\ UNCHANGED <<scenario, tick, now, processExited, globalBrowser,
                 browserOperationInProgress, browserOperationStartTime,
                 outputs, rt, cl, rq, lg, cs, nl, sv, cb, rf>>

----------------------------------------------------------------------------
(* runScraAutomation after the browser was acquired, part_006:287-701 *)

\* What a step on the page of a run leaves alone.
pageFrame == <<scenario, tick, now, processExited, globalBrowser,
               browserOperationInProgress, browserOperationStartTime,
               launchedBy, outputs, rt, cl, rq, lg, cs, nl, sv, cb, rf>>

\* A page operation of run r fails and one of errs reaches the outer catch.
stageFails(r, errs) ==
  /\ FALSE \in PageOp(r)
  /\ \E e \in errs : handleError(r, run[r], e, files)

\* browser.newContext(), context.newPage(); the short safety timer is
\* replaced by the long one and the network logger is attached.
createPage(r) ==
  /\ ~processExited
  /\ run[r].pc = "context"
  /\ \/ /\ TRUE \in PageOp(r)
        /\ Advance(r, [run[r] EXCEPT !.pc = "probe",
                                     !.safetyTimeout = setTimeout(now, LongSafetyMs)])
     \/ stageFails(r, {PlaywrightError})
  /\ UNCHANGED pageFrame

\* The connectivity check, page.goto('https://www.google.com'), inside the
\* navigation try block.
connectivityCheck(r) ==
  /\ ~processExited
  /\ run[r].pc = "probe"
  /\ \/ /\ TRUE \in PageOp(r)
        /\ Advance(r, [run[r] EXCEPT !.pc = "nav"])
     \/ stageFails(r, CatchWrap(r, NavWrap, {PlaywrightError}))
  /\ UNCHANGED pageFrame

\* The navigation's call of retry: delays are counted in 1/NavUnit ms so that
\* delay * 1.5 stays an integer over NavMaxRetries waits.  The jitter is
\* drawn in the faulty scenario and is 0 in the concurrent one.
NavUnit == 2 ^ NavMaxRetries
NavInitialDelay == 1000 * NavUnit
NavMaxDelay == 60000 * NavUnit
NavJitters == IF scenario = "faulty" THEN {0, 999 * NavUnit} ELSE {0}

\* What page.goto(SCRA_URL) can load without throwing: the request form, a
\* page with 'Access Denied' or 'Forbidden' on it, a page that is not of the
\* SCRA site.
LoadedPages ==
  IF scenario = "faulty" THEN {"scra", "denied", "other"} ELSE {"scra"}

\* The locals of retry are gone once the navigation is over, and the next
\* stage changes the page.
afterRetry(rec) == [rec EXCEPT !.retries = 0, !.waits = <<>>, !.content = Null]

\* One attempt of retry(() => page.goto(SCRA_URL), 3, 1000, 60000, finalError).
\* After the attempt that succeeds the record still shows how many attempts
\* failed and the waits between them, until the next stage has run.
navigate(r) ==
  /\ ~processExited
  /\ run[r].pc = "nav"
  /\ \/ /\ TRUE \in PageOp(r)
        /\ \E loaded \in LoadedPages :
             Advance(r, [run[r] EXCEPT !.pc = "login", !.content = loaded])
     \/ \* page.title() or the screenshot after the navigation throws
        /\ TRUE \in PageOp(r)
        /\ FALSE \in PageOp(r)
        /\ \E e \in CatchWrap(r, NavWrap, {PlaywrightError}) :
             handleError(r, afterRetry(run[r]), e, files)
     \/ \* page.goto throws
        /\ FALSE \in PageOp(r)
        /\ IF retryGivesUp(run[r].retries + 1, NavMaxRetries)
           THEN \E e \in CatchWrap(r, NavWrap, {NavFinalError}) :
                  handleError(r, afterRetry(run[r]), e, files)
           ELSE \E jitter \in NavJitters :
                  LET delay == IF run[r].waits = <<>> THEN NavInitialDelay
                               ELSE run[r].waits[Len(run[r].waits)]
                  IN Advance(r, [run[r] EXCEPT
                                   !.pc = "nav_wait", !.retries = @ + 1,
                                   !.waits = Append(@, nextDelay(delay, jitter,
                                                                 NavMaxDelay))])
  /\ UNCHANGED pageFrame

\* The backoff wait of the navigation retry is over.
navigateRetry(r) ==
  /\ ~processExited
  /\ run[r].pc = "nav_wait"
  /\ Advance(r, [run[r] EXCEPT !.pc = "nav"])
  /\ UNCHANGED pageFrame

\* The privacy modal and the login form, both optional.
login(r) ==
  /\ ~processExited
  /\ run[r].pc = "login"
  /\ \/ /\ TRUE \in PageOp(r)
        /\ Advance(r, [afterRetry(run[r]) EXCEPT !.pc = "fill"])
     \/ /\ FALSE \in PageOp(r)
        /\ \E e \in CatchWrap(r, LoginWrap, {PlaywrightError}) :
             handleError(r, afterRetry(run[r]), e, files)
  /\ UNCHANGED pageFrame

\* A run that goes from the form fields straight to the submit button.
afterFill_skipsConsent == "submit"

\* What follows the form fields: the terms checkbox (part_006:469).
afterFill == "consent"

\* page.fill of the identifier, its confirmation, the names, the date.
fillForm(r) ==
  /\ ~processExited
  /\ run[r].pc = "fill"
  /\ \/ /\ TRUE \in PageOp(r)
        /\ Advance(r, [run[r] EXCEPT !.pc = afterFill])
     \/ stageFails(r, {PlaywrightError})
  /\ UNCHANGED pageFrame

\* The terms checkbox: checkboxFound, or the error of the checkbox try block.
acceptTerms(r) ==
  /\ ~processExited
  /\ run[r].pc = "consent"
  /\ \/ /\ TRUE \in PageOp(r)
        /\ Advance(r, [run[r] EXCEPT !.pc = "submit"])
     \/ stageFails(r, CatchRethrow(r, {CheckboxError, PlaywrightError}))
  /\ UNCHANGED pageFrame

\* The errors that leave the download try block (catch downloadError, then
\* catch checkboxError) when errs are thrown inside it.
submitErrors(r, errs) == CatchRethrow(r, CatchWrap(r, SubmitWrap, errs))

\* Click submit, await the download, save it as scra-result.pdf.
submitForm(r) ==
  /\ ~processExited
  /\ run[r].pc = "submit"
  /\ \/ /\ TRUE \in PageOp(r)
        /\ files' = files \cup {<<run[r].runFolder, "scra-result.pdf">>}
        /\ Set(r, [run[r] EXCEPT !.pc = "classify"])
        /\ UNCHANGED errorLog
     \/ stageFails(r, submitErrors(r, {PlaywrightError}))
  /\ UNCHANGED pageFrame

\* Parse the document, classify it, rename it, write result.json, take the
\* screenshot before the callback.
classifyDocument(r) ==
  /\ ~processExited
  /\ run[r].pc = "classify"
  /\ \/ \E text \in SampleTexts :
          LET found == proofOfMilitaryServiceFound(text)
              classified == [run[r] EXCEPT !.proofOfMilitaryServiceFound = found,
                                           !.result = resultJson(found)]
              written == (files \ {<<run[r].runFolder, "scra-result.pdf">>})
                           \cup {<<run[r].runFolder, finalPdfName(found)>>,
                                 <<run[r].runFolder, "result.json">>}
          IN \/ /\ TRUE \in PageOp(r)
                /\ files' = written
                /\ Set(r, [classified EXCEPT !.pc = "deliver"])
                /\ UNCHANGED errorLog
             \/ \* a screenshot after result.json throws
                /\ TRUE \in PageOp(r)
                /\ FALSE \in PageOp(r)
                /\ \E e \in submitErrors(r, {PlaywrightError}) :
                     handleError(r, classified, e, written)
     \/ \* pdfParse or the screenshot before the classification throws
        stageFails(r, submitErrors(r, {PlaywrightError}))
  /\ UNCHANGED pageFrame

----------------------------------------------------------------------------
(* The callback delivery, part_006:604-684 *)

\* How axios.post settles: it resolves on a 2xx status (the body JSON or an
\* HTML page) and rejects on any other status or on a transport error.
PostOutcomes == {"2xx-json", "2xx-html", "non2xx", "transport"}
postResolves(resp) == resp \in {"2xx-json", "2xx-html"}

\* A delivery that posts whether or not a callback URL is present.
shouldPost_always(url) == TRUE

\* if (endpointUrl)
shouldPost(url) == url # Null

\* typeof data === 'string' && (data.includes('<!DOCTYPE HTML') || data.includes('<html'))
isHtml(resp) == resp = "2xx-html"

\* What the catch around the POST receives when the POST settled as resp and
\* the try block did not reach its end.
postCause(resp) ==
  IF postResolves(resp) THEN PlaywrightError
  ELSE IF resp = "non2xx" THEN PostStatusError
  ELSE PostTransportError

\* What callback_error.json holds: the message of the error and the
\* endpoint (the response of the receiver is left out).
callbackErrorJson(cause, url) == [message |-> cause, endpoint |-> url]

\* if (endpointUrl) { try { axios.post; screenshot; callback_response.json;
\* callback_request.json } catch (err) { screenshot; callback_error.json;
\* throw 'Failed to send results' } }, then the end of the outer try: the
\* finally clears the safety timer and awaits browser.close().
deliverResults(r) ==
  /\ ~processExited
  /\ run[r].pc = "deliver"
  /\ IF ~shouldPost(run[r].endpointUrl)
     THEN Advance(r, [run[r] EXCEPT !.pc = "closing", !.delivery = "skipped",
                                    !.safetyTimeout = NoTimer])
     ELSE \E resp \in PostOutcomes :
            LET posted == [run[r] EXCEPT
                            !.posts = @ + 1, !.postResp = resp,
                            !.sfPayload = sfPayload(run[r].proofOfMilitaryServiceFound)]
                failed == [posted EXCEPT !.delivery = "failed"]
                recorded == [failed EXCEPT !.callbackError = callbackErrorJson(
                                             postCause(resp), run[r].endpointUrl)]
            IN \/ \* the POST resolved and the screenshot after it succeeded
                  /\ postResolves(resp)
                  /\ TRUE \in PageOp(r)
                  /\ files' = files \cup {<<run[r].runFolder, "callback_response.json">>,
                                          <<run[r].runFolder, "callback_request.json">>}
                  /\ Set(r, [posted EXCEPT !.pc = "closing", !.delivery = "delivered",
                                           !.isHtmlResponse = isHtml(resp),
                                           !.safetyTimeout = NoTimer])
                  /\ UNCHANGED errorLog
               \/ \* catch (err): the POST rejected, or the screenshot after it
                  \* threw; the error screenshot succeeds, callback_error.json
                  \* is written, 'Failed to send results' is thrown
                  /\ ~postResolves(resp) \/ FALSE \in PageOp(r)
                  /\ TRUE \in PageOp(r)
                  /\ \E e \in submitErrors(r, {<<SendWrap>> \o postCause(resp)}) :
                       handleError(r, recorded, e,
                                   files \cup {<<run[r].runFolder, "callback_error.json">>})
               \/ \* catch (err): the error screenshot itself throws
                  /\ FALSE \in PageOp(r)
                  /\ \E e \in submitErrors(r, {PlaywrightError}) :
                       handleError(r, failed, e, files)
  /\ UNCHANGED pageFrame

\* setupSafetyTimeout's callback: a safety timer that is due and was not
\* cleared calls process.exit(1).  The memory of the process is gone (every
\* run is killed where it stands); the file system and the browser
\* processes are left as they are.
safetyTimeoutFires(r) ==
  /\ ~processExited
  /\ run[r].safetyTimeout # NoTimer
  /\ now >= run[r].safetyTimeout
  /\ processExited' = TRUE
  /\ run' = [q \in Runs |-> [InitRun EXCEPT !.pc = "killed"]]
  /\ globalBrowser' = NullBrowser
  /\ browserOperationInProgress' = FALSE
  /\ browserOperationStartTime' = 0
  /\ UNCHANGED <<scenario, tick, now, launchedBy, outputs, files, errorLog,
                 rt, cl, rq, lg, cs, nl, sv, cb, rf>>

\* Time passes; it is measured from the first invocation.
Tick ==
  /\ ~processExited
  /\ \E r \in Runs : run[r].pc # "idle"
  /\ tick < MaxTicks
  /\ tick' = tick + 1
  /\ now' = Instant(tick + 1)
  /\ UNCHANGED <<scenario, processExited, globalBrowser, browserOperationInProgress,
                 browserOperationStartTime, launchedBy, outputs,
                 files, errorLog, run, rt, cl, rq, lg, cs, nl, sv, cb, rf>>

Next ==
  \/ Tick
  \/ \E r \in Runs :
       \/ runScraAutomation(r)
       \/ initBrowser_closed(r)
       \/ initBrowser_launched(r)
       \/ initBrowser_checked(r)
       \/ initBrowser_retry(r)
       \/ createPage(r)
       \/ connectivityCheck(r)
       \/ navigate(r)
       \/ navigateRetry(r)
       \/ login(r)
       \/ fillForm(r)
       \/ acceptTerms(r)
       \/ submitForm(r)
       \/ classifyDocument(r)
       \/ deliverResults(r)
       \/ closeBrowser(r)
       \/ safetyTimeoutFires(r)

Spec == Init /\ [][Next]_vars

----------------------------------------------------------------------------
(* One call of retry(fn, maxRetries, initialDelay, maxDelay), part_006:97-119 *)

\* The calls made: maxRetries, initialDelay, maxDelay and finalError as the
\* caller passes them.
RetryCalls ==
  {[RtIdle EXCEPT !.maxRetries = m, !.initialDelay = d, !.maxDelay = x,
                  !.finalError = f] :
     m \in 0..MaxRetries, d \in InitialDelays, x \in MaxDelays, f \in FinalErrors}

InitRetry ==
  /\ scenario = "concurrent"
  /\ InitProcess
  /\ rt \in RetryCalls
  /\ cl = ClIdle
  /\ rq = RqIdle
  /\ lg = LgIdle
  /\ cs = CsIdle
  /\ nl = NlIdle
  /\ sv = SvIdle
  /\ cb = CbIdle
  /\ rf = RfIdle

\* let retries = 0; let delay = initialDelay; the first await fn().
retry ==
  /\ rt.pc = "idle"
  /\ rt' = [rt EXCEPT !.pc = "awaiting", !.retries = 0,
                      !.delay = rt.initialDelay, !.calls = 1]
  /\ UNCHANGED <<pipelineVars, cl, rq, lg, cs, nl, sv, cb, rf>>

\* return await fn(): fn resolves.
retry_returns ==
  /\ rt.pc = "awaiting"
  /\ rt' = [rt EXCEPT !.pc = "returned"]
  /\ UNCHANGED <<pipelineVars, cl, rq, lg, cs, nl, sv, cb, rf>>

\* catch (error): fn rejects; retry throws, or computes the next delay and
\* hands it to setTimeout.
retry_catch ==
  /\ rt.pc = "awaiting"
  /\ LET retries == rt.retries + 1
     IN IF retryGivesUp(retries, rt.maxRetries)
        THEN rt' = [rt EXCEPT !.pc = "thrown", !.retries = retries,
                              !.thrown = orElse(rt.finalError, errorOf(rt.calls))]
        ELSE \E jitter \in Jitters :
               LET delay == nextDelay(rt.delay, jitter, rt.maxDelay)
               IN rt' = [rt EXCEPT !.pc = "sleeping", !.retries = retries,
                                   !.delay = delay,
                                   !.waits = Append(rt.waits, delay)]
  /\ UNCHANGED <<pipelineVars, cl, rq, lg, cs, nl, sv, cb, rf>>

\* The timer fires: the loop calls fn again.
retry_wakes ==
  /\ rt.pc = "sleeping"
  /\ rt' = [rt EXCEPT !.pc = "awaiting", !.calls = @ + 1]
  /\ UNCHANGED <<pipelineVars, cl, rq, lg, cs, nl, sv, cb, rf>>

NextRetry == retry \/ retry_returns \/ retry_catch \/ retry_wakes

SpecRetry == InitRetry /\ [][NextRetry]_vars

----------------------------------------------------------------------------
(* One call of the recursive retry(fn, retries, delay, finalError),
   scraAutomation.js:8-19 *)

\* The fixed delays of the model: none, the default, the one the
\* navigation passes, and a longer one.
RecursiveDelays == {0, 5000, 10000, 20000}

\* The calls made; rt.retries and rt.finalError are the parameters of the
\* innermost call.
RetryCallsRecursive ==
  {[RtIdle EXCEPT !.maxRetries = m, !.retries = m, !.initialDelay = d, !.delay = d,
                  !.finalError = f] :
     m \in 0..MaxRetries, d \in RecursiveDelays, f \in FinalErrors}

InitRetryRecursive ==
  /\ scenario = "concurrent"
  /\ InitProcess
  /\ rt \in RetryCallsRecursive
  /\ cl = ClIdle
  /\ rq = RqIdle
  /\ lg = LgIdle
  /\ cs = CsIdle
  /\ nl = NlIdle
  /\ sv = SvIdle
  /\ cb = CbIdle
  /\ rf = RfIdle

\* The outermost call reaches await fn().
retryRecursive ==
  /\ rt.pc = "idle"
  /\ rt' = [rt EXCEPT !.pc = "awaiting", !.calls = 1]
  /\ UNCHANGED <<pipelineVars, cl, rq, lg, cs, nl, sv, cb, rf>>

\* return await fn(): fn resolves and every enclosing call returns.
retryRecursive_returns ==
  /\ rt.pc = "awaiting"
  /\ rt' = [rt EXCEPT !.pc = "returned"]
  /\ UNCHANGED <<pipelineVars, cl, rq, lg, cs, nl, sv, cb, rf>>

\* catch (error): with no retries left finalError || error is thrown through
\* every enclosing call, otherwise the delay is handed to setTimeout.
retryRecursive_catch ==
  /\ rt.pc = "awaiting"
  /\ IF rt.retries <= 0
     THEN rt' = [rt EXCEPT !.pc = "thrown",
                           !.thrown = orElse(rt.finalError, errorOf(rt.calls))]
     ELSE rt' = [rt EXCEPT !.pc = "sleeping", !.waits = Append(rt.waits, rt.delay)]
  /\ UNCHANGED <<pipelineVars, cl, rq, lg, cs, nl, sv, cb, rf>>

\* The timer fires: return retry(fn, retries - 1, delay, error), whose
\* finalError is the error just caught.
retryRecursive_wakes ==
  /\ rt.pc = "sleeping"
  /\ rt' = [rt EXCEPT !.pc = "awaiting", !.retries = @ - 1,
                      !.finalError = errorOf(rt.calls), !.calls = @ + 1]
  /\ UNCHANGED <<pipelineVars, cl, rq, lg, cs, nl, sv, cb, rf>>

NextRetryRecursive ==
  \/ retryRecursive
  \/ retryRecursive_returns
  \/ retryRecursive_catch
  \/ retryRecursive_wakes

SpecRetryRecursive == InitRetryRecursive /\ [][NextRetryRecursive]_vars

----------------------------------------------------------------------------
(* The classifier applied to one extracted text, part_006:559-574 *)

InitClassify ==
  /\ scenario = "concurrent"
  /\ InitProcess
  /\ rt = RtIdle
  /\ cl \in {[ClIdle EXCEPT !.pc = "parsed", !.text = t] : t \in Texts}
  /\ rq = RqIdle
  /\ lg = LgIdle
  /\ cs = CsIdle
  /\ nl = NlIdle
  /\ sv = SvIdle
  /\ cb = CbIdle
  /\ rf = RfIdle

\* The loop over the lines of pdfText.
classify ==
  /\ cl.pc = "parsed"
  /\ cl' = [cl EXCEPT !.pc = "classified",
                      !.found = proofOfMilitaryServiceFound(cl.text)]
  /\ UNCHANGED <<pipelineVars, rt, rq, lg, cs, nl, sv, cb, rf>>

NextClassify == classify

SpecClassify == InitClassify /\ [][NextClassify]_vars

----------------------------------------------------------------------------
(* What runScraAutomation derives from the fields of one request,
   part_006:443-451 *)

\* The request arrives with its subject identifier.
InitRequest ==
  /\ scenario = "concurrent"
  /\ InitProcess
  /\ rt = RtIdle
  /\ cl = ClIdle
  /\ rq \in {[RqIdle EXCEPT !.pc = "form", !.ssn = v, !.dob = d, !.scraPassword = p] :
               v \in Ssns, d \in Dobs, p \in Passwords}
  /\ lg = LgIdle
  /\ cs = CsIdle
  /\ nl = NlIdle
  /\ sv = SvIdle
  /\ cb = CbIdle
  /\ rf = RfIdle

\* await page.fill('#ssnInput', cleanedSsn)
fillSsnInput ==
  /\ rq.pc = "form"
  /\ rq' = [rq EXCEPT !.pc = "ssn_filled", !.ssnInput = cleanedSsn(rq.ssn)]
  /\ UNCHANGED <<pipelineVars, rt, cl, lg, cs, nl, sv, cb, rf>>

\* await page.fill('#ssnConfirmationInput', cleanedSsn)
fillSsnConfirmation ==
  /\ rq.pc = "ssn_filled"
  /\ rq' = [rq EXCEPT !.pc = "confirmed",
                      !.ssnConfirmationInput = cleanedSsn(rq.ssn)]
  /\ UNCHANGED <<pipelineVars, rt, cl, lg, cs, nl, sv, cb, rf>>

\* catch (err): the error report that goes to error_report.json and to the
\* central error log, whichever stage threw.
writeErrorReport ==
  /\ rq.pc \in {"form", "ssn_filled", "confirmed"}
  /\ \E e \in {PlaywrightError, CheckboxError} :
       rq' = [rq EXCEPT !.pc = "reported",
                        !.errorReport = [message |-> e, context |-> reportContext(rq)]]
  /\ UNCHANGED <<pipelineVars, rt, cl, lg, cs, nl, sv, cb, rf>>

NextRequest == fillSsnInput \/ fillSsnConfirmation \/ writeErrorReport

SpecRequest == InitRequest /\ [][NextRequest]_vars

----------------------------------------------------------------------------
(* logs/error_log.json over the failing runs of the server, part_006:747-766 *)

\* The report of the k-th failing run; the timestamp tells the reports apart.
Report(k, e) == [timestamp |-> k, message |-> e]

\* The log that earlier failing runs have left behind: n reports, n up to
\* the cap.
LogOf(n) == [k \in 1..n |-> Report(k, IF k % 2 = 0 THEN LockError ELSE LaunchError)]

\* The file as the next failing run finds it.  lg.appended lists every
\* report ever appended, lg.writes counts the appends from here on.
InitErrorLog ==
  /\ scenario = "concurrent"
  /\ InitProcess
  /\ rt = RtIdle
  /\ cl = ClIdle
  /\ rq = RqIdle
  /\ \E n \in 0..ErrorLogCap :
       lg = [errorLog |-> LogOf(n), appended |-> LogOf(n), writes |-> 0]
  /\ cs = CsIdle
  /\ nl = NlIdle
  /\ sv = SvIdle
  /\ cb = CbIdle
  /\ rf = RfIdle

\* One failing run reads the file, pushes its report, keeps the last 100 and
\* writes the file; no await lies between the read and the write.
writeErrorLog ==
  /\ lg.writes < MaxWrites
  /\ \E e \in {PlaywrightError, LockError} :
       LET report == Report(Len(lg.appended) + 1, e)
       IN lg' = [errorLog |-> appendErrorLog(lg.errorLog, report),
                 appended |-> Append(lg.appended, report),
                 writes |-> lg.writes + 1]
  /\ UNCHANGED <<pipelineVars, rt, cl, rq, cs, nl, sv, cb, rf>>

NextErrorLog == writeErrorLog

SpecErrorLog == InitErrorLog /\ [][NextErrorLog]_vars

----------------------------------------------------------------------------
(* The terms checkbox, part_006:469-526 and 691-701.  cs.tried lists the
   strategies attempted, each with whether its check or click succeeded. *)

InitConsent ==
  /\ scenario = "concurrent"
  /\ InitProcess
  /\ rt = RtIdle
  /\ cl = ClIdle
  /\ rq = RqIdle
  /\ lg = LgIdle
  /\ nl = NlIdle
  /\ sv = SvIdle
  /\ cb = CbIdle
  /\ rf = RfIdle
  /\ \E n \in 0..MaxCheckboxes : cs = [CsIdle EXCEPT !.pc = "wait", !.checkboxes = n]

\* An error leaves the checkbox try block: catch (checkboxError) takes its
\* screenshot and rethrows, or throws the error of the screenshot.
consentThrows(rec) ==
  cs' = [rec EXCEPT !.pc = "failed", !.err = PlaywrightError]

\* if (checkboxFound) the submission follows; else the screenshot and
\* throw new Error('I Accept checkbox not found ...').
consentEnds(rec) ==
  IF rec.checkboxFound
  THEN cs' = [rec EXCEPT !.pc = "accepted"]
  ELSE \E shots \in BOOLEAN :
         cs' = [rec EXCEPT !.pc = "failed",
                           !.err = IF shots THEN CheckboxError ELSE PlaywrightError]

\* One strategy: the check or click (ok), the screenshot after it
\* (shot) and the screenshot of its catch block (failShot).  A throw of the
\* check, the click or the screenshot after it lands in the catch block,
\* which goes on to the place next; a throw in the catch block leaves the
\* strategy.
strategy(name, next) ==
  \E ok, shot, failShot \in BOOLEAN :
       LET rec == [cs EXCEPT !.checkboxFound = @ \/ ok,
                             !.tried = Append(@, [strategy |-> name, ok |-> ok])]
       IN IF ok /\ shot THEN consentEnds(rec)
          ELSE IF failShot THEN cs' = [rec EXCEPT !.pc = next]
          ELSE consentThrows(rec)

\* The screenshot, waitForSelector(checkboxSelector, attached), the
\* screenshot.
waitForCheckbox ==
  /\ cs.pc = "wait"
  /\ \/ cs' = [cs EXCEPT !.pc = "check"]
     \/ consentThrows(cs)
  /\ UNCHANGED <<pipelineVars, rt, cl, rq, lg, nl, sv, cb, rf>>

\* await page.check(checkboxSelector)
directCheck ==
  /\ cs.pc = "check"
  /\ strategy("a", "label")
  /\ UNCHANGED <<pipelineVars, rt, cl, rq, lg, nl, sv, cb, rf>>

\* await page.click(labelSelector)
labelClick ==
  /\ cs.pc = "label"
  /\ strategy("b", "query")
  /\ UNCHANGED <<pipelineVars, rt, cl, rq, lg, nl, sv, cb, rf>>

\* const checkboxes = await page.$$('input[type="checkbox"]')
queryCheckboxes ==
  /\ cs.pc = "query"
  /\ \/ IF cs.checkboxes > 0 THEN cs' = [cs EXCEPT !.pc = "each", !.k = 1]
        ELSE consentEnds(cs)
     \/ consentThrows(cs)
  /\ UNCHANGED <<pipelineVars, rt, cl, rq, lg, nl, sv, cb, rf>>

\* for (const checkbox of checkboxes): await checkbox.check() and the
\* screenshot; catch (e3) goes on to the next checkbox.
eachCheckbox ==
  /\ cs.pc = "each"
  /\ \E ok, shot \in BOOLEAN :
       LET rec == [cs EXCEPT !.checkboxFound = @ \/ ok,
                             !.tried = Append(@, [strategy |-> "c", ok |-> ok])]
       IN IF (ok /\ shot) \/ cs.k = cs.checkboxes THEN consentEnds(rec)
          ELSE cs' = [rec EXCEPT !.k = @ + 1]
  /\ UNCHANGED <<pipelineVars, rt, cl, rq, lg, nl, sv, cb, rf>>

NextConsent ==
  waitForCheckbox \/ directCheck \/ labelClick \/ queryCheckboxes \/ eachCheckbox

SpecConsent == InitConsent /\ [][NextConsent]_vars

----------------------------------------------------------------------------
(* setupNetworkLogging, part_006:156-213.  network_log.json is modelled by
   the tokens of its text; before the first event the file does not exist
   (no tokens). *)

Urls == {"https://www.google.com", "https://scra.dmdc.osd.mil"}
Statuses == {200, 403}
NoEvent == [timestamp |-> 0, type |-> "none", url |-> "none"]
Token(t, event) == [tok |-> t, value |-> event]

RECURSIVE commaSeparated(_)
commaSeparated(events) ==
  IF events = <<>> THEN <<>>
  ELSE IF Len(events) = 1 THEN <<Token("object", events[1])>>
  ELSE <<Token("object", events[1]), Token(",", NoEvent)>> \o commaSeparated(Tail(events))

\* JSON.stringify(networkEvents, null, 2)
stringify(events) ==
  <<Token("[", NoEvent)>> \o commaSeparated(events) \o <<Token("]", NoEvent)>>

\* The array read back from the text of the file.
RECURSIVE parsed(_)
parsed(text) ==
  IF text = <<>> THEN <<>>
  ELSE IF Head(text).tok = "object" THEN <<Head(text).value>> \o parsed(Tail(text))
  ELSE parsed(Tail(text))

\* A log file that holds the last event only.
writeNetworkLog_lastOnly(events) == stringify(<<events[Len(events)]>>)

\* fs.writeFileSync(networkLogPath, JSON.stringify(networkEvents, null, 2))
\* replaces the text of the file.
writeNetworkLog(events) == stringify(events)

InitNetworkLog ==
  /\ scenario = "concurrent"
  /\ InitProcess
  /\ rt = RtIdle
  /\ cl = ClIdle
  /\ rq = RqIdle
  /\ lg = LgIdle
  /\ cs = CsIdle
  /\ sv = SvIdle
  /\ cb = CbIdle
  /\ rf = RfIdle
  /\ nl = NlIdle

\* logNetworkEvent(type, data): the event is pushed and the file rewritten.
\* nl.previous keeps the text the file had before.
logNetworkEvent(type, url) ==
  LET event == [timestamp |-> now, type |-> type, url |-> url]
      events == Append(nl.networkEvents, event)
  IN nl' = [networkEvents |-> events, file |-> writeNetworkLog(events),
            previous |-> nl.file]

\* page.on('request', ...)
onRequest ==
  /\ Len(nl.networkEvents) < MaxEvents
  /\ \E url \in Urls : logNetworkEvent("request_sent", url)
  /\ UNCHANGED <<pipelineVars, rt, cl, rq, lg, cs, sv, cb, rf>>

\* page.on('requestfailed', ...)
onRequestFailed ==
  /\ Len(nl.networkEvents) < MaxEvents
  /\ \E url \in Urls : logNetworkEvent("request_failed", url)
  /\ UNCHANGED <<pipelineVars, rt, cl, rq, lg, cs, sv, cb, rf>>

\* page.on('response', ...)
onResponse ==
  /\ Len(nl.networkEvents) < MaxEvents
  /\ \E url \in Urls, status \in Statuses :
       logNetworkEvent(IF status >= 400 THEN "response_error"
                       ELSE "response_received", url)
  /\ UNCHANGED <<pipelineVars, rt, cl, rq, lg, cs, sv, cb, rf>>

NextNetworkLog == onRequest \/ onRequestFailed \/ onResponse

SpecNetworkLog == InitNetworkLog /\ [][NextNetworkLog]_vars

----------------------------------------------------------------------------
(* app.post('/scra-request') in the copies of the server: src/src/server.js
   286-359, src/index.js 55-112, src/unnamed/part_000 9-33.  The run is the
   promise that runScraAutomation returns. *)

Versions == {"src/src/server.js", "src/index.js", "src/unnamed/part_000"}

\* A body whose ssn or callback URL is not a string makes .replace throw.
Bodies == {"fields", "malformed"}

InitServer ==
  /\ scenario = "concurrent"
  /\ InitProcess
  /\ rt = RtIdle
  /\ cl = ClIdle
  /\ rq = RqIdle
  /\ lg = LgIdle
  /\ cs = CsIdle
  /\ nl = NlIdle
  /\ cb = CbIdle
  /\ rf = RfIdle
  /\ \E v \in Versions, b \in [Requests -> Bodies] :
       sv = [version |-> v,
             req |-> [q \in Requests |-> [SvRequest EXCEPT !.pc = "received",
                                                          !.body = b[q]]]]

SetRequest(q, rec) == sv' = [sv EXCEPT !.req[q] = rec]

\* server.js and index.js: the body is read and logged, 202 is sent, then
\* runScraAutomation(...).catch(...) is called; catch (error) sends 500 when
\* no response was sent.
scraRequest(q) ==
  /\ sv.version # "src/unnamed/part_000"
  /\ sv.req[q].pc = "received"
  /\ IF sv.req[q].body = "malformed"
     THEN SetRequest(q, [sv.req[q] EXCEPT !.pc = "done", !.responses = Append(@, 500)])
     ELSE SetRequest(q, [sv.req[q] EXCEPT !.pc = "running", !.run = "started",
                                          !.handled = TRUE,
                                          !.responses = Append(@, 202)])
  /\ UNCHANGED <<pipelineVars, rt, cl, rq, lg, cs, nl, cb, rf>>

\* part_000: await runScraAutomation(...) comes first.
scraRequest_awaits(q) ==
  /\ sv.version = "src/unnamed/part_000"
  /\ sv.req[q].pc = "received"
  /\ SetRequest(q, [sv.req[q] EXCEPT !.pc = "awaiting", !.run = "started"])
  /\ UNCHANGED <<pipelineVars, rt, cl, rq, lg, cs, nl, cb, rf>>

\* The promise of the run resolves; part_000 goes on to res.status(200).
runResolves(q) ==
  /\ sv.req[q].run = "started"
  /\ SetRequest(q, [sv.req[q] EXCEPT
                      !.pc = "done", !.run = "resolved",
                      !.responses = IF sv.req[q].pc = "awaiting"
                                    THEN Append(@, 200) ELSE @])
  /\ UNCHANGED <<pipelineVars, rt, cl, rq, lg, cs, nl, cb, rf>>

\* The promise of the run rejects: .catch logs it where it is attached;
\* in part_000 the promise of the async handler rejects with it and
\* nothing handles that.
runRejects(q) ==
  /\ sv.req[q].run = "started"
  /\ SetRequest(q, [sv.req[q] EXCEPT
                      !.pc = "done", !.run = "rejected",
                      !.unhandledRejection = ~sv.req[q].handled])
  /\ UNCHANGED <<pipelineVars, rt, cl, rq, lg, cs, nl, cb, rf>>

NextServer ==
  \E q \in Requests :
    scraRequest(q) \/ scraRequest_awaits(q) \/ runResolves(q) \/ runRejects(q)

SpecServer == InitServer /\ [][NextServer]_vars

----------------------------------------------------------------------------
(* The callback URL of a request: src/src/server.js 306-320 and the POST of
   part_006:605-623.  A URL is the sequence of its pieces of text. *)

UrlPieces == {" ", "http", "s", "://", "a"}
CallbackUrls == UNION {[1..n -> UrlPieces] : n \in 1..MaxUrlLen}
IsWhitespace(c) == c = " "

\* effectiveCallbackUrl.replace(/[\t\s]+/g, ''); if
\* (!effectiveCallbackUrl.startsWith('http')) 'https://' + effectiveCallbackUrl
normalized(url) ==
  LET stripped == SelectSeq(url, LAMBDA c : ~IsWhitespace(c))
  IN IF stripped # <<>> /\ Head(stripped) = "http" THEN stripped
     ELSE <<"http", "s", "://">> \o stripped

InitCallbackUrl ==
  /\ scenario = "concurrent"
  /\ InitProcess
  /\ rt = RtIdle
  /\ cl = ClIdle
  /\ rq = RqIdle
  /\ lg = LgIdle
  /\ cs = CsIdle
  /\ nl = NlIdle
  /\ sv = SvIdle
  /\ rf = RfIdle
  /\ \E url \in CallbackUrls :
       cb = [CbIdle EXCEPT !.pc = "received", !.callbackUrl = url]

\* if (effectiveCallbackUrl) { ... } of the request handler
normalizeCallbackUrl ==
  /\ cb.pc = "received"
  /\ cb' = [cb EXCEPT !.pc = "run",
                      !.effectiveCallbackUrl = normalized(cb.callbackUrl)]
  /\ UNCHANGED <<pipelineVars, rt, cl, rq, lg, cs, nl, sv, rf>>

\* if (endpointUrl) { ... axios.post(endpointUrl, sfPayload, ...) }
postToEndpoint ==
  /\ cb.pc = "run"
  /\ cb' = [cb EXCEPT !.pc = "posted"]
  /\ UNCHANGED <<pipelineVars, rt, cl, rq, lg, cs, nl, sv, rf>>

NextCallbackUrl == normalizeCallbackUrl \/ postToEndpoint

SpecCallbackUrl == InitCallbackUrl /\ [][NextCallbackUrl]_vars

----------------------------------------------------------------------------
(* createRunFolder (part_006:131-145) and the read endpoints of a run folder
   (src/src/server.js 39-60, 150-171, 222-236).  A name is the sequence of
   its characters. *)

\* Instants of the clock, by the digits of their seconds and milliseconds.
Dates == [s1 : {"0", "5"}, s2 : {"0", "9"}, ms : Digits]

\* new Date().toISOString(): YYYY-MM-DDTHH:mm:ss.sssZ
toISOString(d) ==
  <<"2", "0", "2", "5", "-", "0", "1", "-", "3", "1", "T", "2", "3", ":", "5", "9", ":",
    d.s1, d.s2, ".", d.ms, d.ms, d.ms, "Z">>

\* .replace(/[:.]/g, '-')
replaceColonsAndDots(str) ==
  [i \in DOMAIN str |-> IF str[i] \in {":", "."} THEN "-" ELSE str[i]]

\* `run-${timestamp}`
runFolderName(timestamp) == <<"r", "u", "n", "-">> \o timestamp

\* runFolder.match(/^run-[0-9T\-:\.]+$/)
matchesRunFolder(name) ==
  /\ Len(name) > 4
  /\ SubSeq(name, 1, 4) = <<"r", "u", "n", "-">>
  /\ \A i \in 5..Len(name) : name[i] \in Digits \cup {"T", "-", ":", "."}

InitRunFolder ==
  /\ scenario = "concurrent"
  /\ InitProcess
  /\ rt = RtIdle
  /\ cl = ClIdle
  /\ rq = RqIdle
  /\ lg = LgIdle
  /\ cs = CsIdle
  /\ nl = NlIdle
  /\ sv = SvIdle
  /\ cb = CbIdle
  /\ \E d \in Dates : rf = [RfIdle EXCEPT !.pc = "start", !.timestamp = toISOString(d)]

\* createRunFolder(); the run then writes its screenshots, its PDF and its
\* network log into the folder.
createRunFolder ==
  /\ rf.pc = "start"
  /\ rf' = [rf EXCEPT !.pc = "written",
                      !.runFolder = runFolderName(replaceColonsAndDots(rf.timestamp))]
  /\ UNCHANGED <<pipelineVars, rt, cl, rq, lg, cs, nl, sv, cb>>

\* The status of a read of a file that exists in the folder.
served(name) == IF ~matchesRunFolder(name) THEN 400 ELSE 200

\* app.get('/screenshots/:runFolder/:filename')
getScreenshot ==
  /\ rf.pc = "written"
  /\ rf' = [rf EXCEPT !.pc = "screenshot", !.status = served(rf.runFolder)]
  /\ UNCHANGED <<pipelineVars, rt, cl, rq, lg, cs, nl, sv, cb>>

\* app.get('/pdfs/:runFolder/:filename')
getPdf ==
  /\ rf.pc = "written"
  /\ rf' = [rf EXCEPT !.pc = "pdf", !.status = served(rf.runFolder)]
  /\ UNCHANGED <<pipelineVars, rt, cl, rq, lg, cs, nl, sv, cb>>

\* app.get('/network-logs/:runFolder')
getNetworkLog ==
  /\ rf.pc = "written"
  /\ rf' = [rf EXCEPT !.pc = "network-log", !.status = served(rf.runFolder)]
  /\ UNCHANGED <<pipelineVars, rt, cl, rq, lg, cs, nl, sv, cb>>

NextRunFolder == createRunFolder \/ getScreenshot \/ getPdf \/ getNetworkLog

SpecRunFolder == InitRunFolder /\ [][NextRunFolder]_vars

----------------------------------------------------------------------------
(* Properties *)

\* The runs between browser acquisition (browser = await withBrowserLock(..))
\* and browser close.
holders == {r \in Runs : run[r].browser # NullBrowser}

\* The steps inside initBrowser.
InitPcs == {"init_close", "init_launch", "init_health", "init_wait"}

\* C1: runs are serialized on the single browser.  As long as no busy mark
\* can have been stale (no more than the staleness threshold has passed since
\* the first invocation), at most one run is between its browser acquisition
\* and its browser close.
C1_Serialized ==
  now <= BROWSER_OPERATION_TIMEOUT_MS => Cardinality(holders) <= 1

\* C2: an invocation that finds the busy flag set is rejected with 'Could not
\* get browser lock' and runs nothing of the operation when the time since
\* browserOperationStartTime does not exceed 30 s; when it exceeds 30 s the
\* operation is run, under a busy mark of its own.
C2_LockDecision ==
  [][\A r \in Runs :
       (/\ run[r].pc = "idle"
        /\ run'[r].pc \notin {"idle", "killed"}
        /\ RunFolderName(now) \notin outputs
        /\ browserOperationInProgress)
       => IF now - browserOperationStartTime > BROWSER_OPERATION_TIMEOUT_MS
          THEN /\ run'[r].pc \in InitPcs
               /\ browserOperationInProgress'
               /\ browserOperationStartTime' = now
          ELSE /\ run'[r].pc = "done"
               /\ run'[r].err = LockError
               /\ run'[r].outcome = "rejected"
               /\ UNCHANGED <<globalBrowser, launchedBy, browserOperationInProgress,
                              browserOperationStartTime>>]_vars

\* C2, its case: the second run was admitted over the stale busy mark of the
\* first, and both are inside initBrowser.
C2_StaleOverride ==
  /\ run["r1"].pc \in InitPcs
  /\ run["r2"].pc \in InitPcs
  /\ browserOperationInProgress
  /\ browserOperationStartTime > BROWSER_OPERATION_TIMEOUT_MS

\* C3: when a run has terminated every browser launched on its behalf is
\* closed, and once no run is in progress no browser process is open.
C3_NoLeak ==
  /\ \A b \in openBrowsers : run[launchedBy[b]].pc # "done"
  /\ (\A r \in Runs : run[r].pc \in {"idle", "done"}) => openBrowsers = {}

\* inTable once the loop has handled line k of lines.
RECURSIVE inTableAt(_, _)
inTableAt(lines, k) ==
  IF k = 0 THEN FALSE ELSE inTableAfter(lines[k], inTableAt(lines, k - 1))

\* The lines of the table region: from a 'Start Date' line up to the
\* following 'Service Component' line.
TableRegion(lines) == {k \in 1..Len(lines) : inTableAt(lines, k)}

\* C4: a text whose table region carries only placeholders (NA, No), next to
\* the start marker or on lines of their own, is classified No.
C4_PlaceholdersGiveNo ==
  (/\ cl.pc = "classified"
   /\ \A k \in TableRegion(cl.text) : cl.text[k] \subseteq {"Start Date", "NA", "No"})
  => cl.found = "No"

\* C5: a text with a value that is not a placeholder on some line of the
\* table region is classified Yes, whatever else is on that line.
C5_ValueGivesYes ==
  (/\ cl.pc = "classified"
   /\ \E k \in TableRegion(cl.text) : "Army" \in cl.text[k])
  => cl.found = "Yes"

\* C6: retry calls fn at most maxRetries + 1 times; it returns at the first
\* call that succeeds (every call before it failed, none follows it), and it
\* throws after exactly maxRetries + 1 failed calls.
C6_AttemptBound ==
  /\ rt.calls <= rt.maxRetries + 1
  /\ rt.pc = "returned" => rt.calls = rt.retries + 1
  /\ rt.pc = "thrown" => rt.calls = rt.maxRetries + 1 /\ rt.retries = rt.calls

\* C6, its case: every call of the longest retry failed.
C6_AllAttemptsFail ==
  /\ rt.pc = "thrown"
  /\ rt.maxRetries = MaxRetries
  /\ rt.calls = MaxRetries + 1

\* The delays handed to setTimeout so far do not decrease and none exceeds
\* maxDelay.
WaitsOrderedAndCapped ==
  \A k \in 1..Len(rt.waits) :
    /\ rt.waits[k] <= rt.maxDelay
    /\ k > 1 => rt.waits[k - 1] <= rt.waits[k]

\* C7, as the code has it: for initialDelay >= 0, maxDelay >= 0 and jitters
\* in [0, 1000) the waits between the attempts do not decrease and none
\* exceeds maxDelay.
C7_WaitsBounded == rt.maxDelay >= 0 => WaitsOrderedAndCapped

\* C7, its case: two waits under a cap that is not negative, the second
\* longer than the first and cut at the cap.
C7_TwoWaits ==
  /\ rt.maxDelay >= 0
  /\ Len(rt.waits) >= 2
  /\ rt.waits[1] < rt.waits[2]
  /\ rt.waits[2] = rt.maxDelay

\* C7, as stated: the same for any maxDelay.
C7_AnyMaxDelay == rt.maxDelay \in MaxDelays => WaitsOrderedAndCapped

\* C8: every invocation that has passed createRunFolder has a run directory
\* of its own.
C8_OwnDirectory ==
  \A r \in Runs :
    run[r].pc \notin {"idle", "killed"}
    => /\ run[r].runFolder \in outputs
       /\ \A q \in Runs \ {r} : run[q].runFolder # run[r].runFolder

\* C9: a run without a callback URL posts nothing and, having skipped the
\* delivery, ends without an error; a run with one posts at most once, also
\* when the POST failed.
C9_AtMostOnePost ==
  \A r \in Runs :
    /\ run[r].posts <= 1
    /\ run[r].endpointUrl = Null => run[r].posts = 0
    /\ run[r].delivery = "skipped"
       => /\ run[r].endpointUrl = Null
          /\ run[r].err = NoError
          /\ run[r].pc = "done" => run[r].outcome = "resolved"
    /\ run[r].postResp \in {"non2xx", "transport"} => run[r].posts = 1

\* C9, its case: a run without a callback URL has completed, resolved,
\* without a POST.
C9_SkippedDelivery ==
  \E r \in Runs :
    /\ run[r].pc = "done"
    /\ run[r].endpointUrl = Null
    /\ run[r].delivery = "skipped"
    /\ run[r].posts = 0
    /\ run[r].outcome = "resolved"

\* 'Failed to send results' is in the chain of messages of the error.
IsDeliveryFailure(e) == \E k \in 1..Len(e) : e[k] = SendWrap

\* C10: the answer to the POST alone decides the delivery.  After a 2xx
\* answer the response is recorded and the run has no error; after another
\* status or a transport error callback_error.json is in the run directory
\* and the run fails with a delivery failure.
C10_DeliveryOutcome ==
  \A r \in Runs :
    run[r].pc \in {"closing", "done"}
    => /\ postResolves(run[r].postResp)
          => /\ run[r].delivery = "delivered"
             /\ run[r].err = NoError
             /\ <<run[r].runFolder, "callback_response.json">> \in files
       /\ run[r].postResp \in {"non2xx", "transport"}
          => /\ <<run[r].runFolder, "callback_error.json">> \in files
             /\ IsDeliveryFailure(run[r].err)

\* The message the error opens with: what the caller and the error report
\* show first.
outermost(e) == IF e = NoError THEN Null ELSE Head(e)

\* The entries of the central error log that run r appended.
logged(r) == {k \in 1..Len(errorLog) : errorLog[k].run = r}

\* C11: after a rejected POST the result summary and the renamed document
\* stay in the run directory, and the error of the run, in its rejection and
\* in its error report, is the delivery failure 'Failed to send results',
\* not the form-submission failure 'Form submission failed'.
C11_DeliveryFailureSurfaced ==
  \A r \in Runs :
    (run[r].pc \in {"closing", "done"} /\ run[r].postResp \in {"non2xx", "transport"})
    => /\ <<run[r].runFolder, "result.json">> \in files
       /\ <<run[r].runFolder, finalPdfName(run[r].proofOfMilitaryServiceFound)>> \in files
       /\ outermost(run[r].err) = SendWrap
       /\ \A k \in logged(r) : outermost(errorLog[k].message) = SendWrap

\* The names of the negative and of the positive outcome.
NegativeName == "AFFIRMATION - Affirmation of Non Military.pdf"
PositiveName == "firstName lastName - Proof of Military Service.pdf"

\* The name that belongs to a determination.
nameFor(found) == IF found = "No" THEN NegativeName ELSE PositiveName

\* The document of run r is in its run directory under some name.
documentStored(r) ==
  \E n \in {"scra-result.pdf", NegativeName, PositiveName} :
    <<run[r].runFolder, n>> \in files

digitPositions(s) == {k \in 1..Len(s) : s[k] \in Digits}

\* out is the subsequence of the digit characters of s in their order: its
\* j-th character is the digit of s that has j - 1 digits before it.
IsDigitSubsequence(out, s) ==
  /\ Len(out) = Cardinality(digitPositions(s))
  /\ \A k \in digitPositions(s) :
       out[Cardinality({j \in digitPositions(s) : j <= k})] = s[k]

\* C13: the value filled into the identifier field and into its
\* confirmation field is the subsequence of the digit characters of the
\* subject identifier in their order, and stripping it again changes nothing.
C13_DigitsOnly ==
  /\ rq.pc \in {"ssn_filled", "confirmed"}
     => /\ IsDigitSubsequence(rq.ssnInput, rq.ssn)
        /\ cleanedSsn(rq.ssnInput) = rq.ssnInput
  /\ rq.pc = "confirmed"
     => /\ IsDigitSubsequence(rq.ssnConfirmationInput, rq.ssn)
        /\ rq.ssnConfirmationInput = rq.ssnInput
        /\ cleanedSsn(rq.ssnConfirmationInput) = rq.ssnConfirmationInput

\* C13, its case: an identifier with two formatting characters between its
\* digits was filled into both fields.
C13_FormattedFilled ==
  /\ rq.pc = "confirmed"
  /\ Len(rq.ssn) - Len(rq.ssnInput) >= 2
  /\ Len(rq.ssnInput) >= 2
  /\ rq.ssn[1] \in Digits
  /\ rq.ssn[Len(rq.ssn)] \in Digits

\* t differs from s at most in digits that are not among the last four
\* digits: the same length, the same formatting characters at the same
\* places, the same last four digits.
LeadingDigitsVariant(s, t) ==
  /\ Len(s) = Len(t)
  /\ \A k \in 1..Len(s) : IF s[k] \in Digits THEN t[k] \in Digits ELSE t[k] = s[k]
  /\ LET ds == SelectSeq(s, LAMBDA c : c \in Digits)
         dt == SelectSeq(t, LAMBDA c : c \in Digits)
     IN \A k \in 0..3 : k < Len(ds) => ds[Len(ds) - k] = dt[Len(dt) - k]

C15_CallbackUrlNeverInFull ==
  \A r \in Runs :
    (run[r].err # NoError /\ run[r].endpointUrl # Null)
    => /\ run[r].callbackError.endpoint # run[r].endpointUrl
       /\ \A k \in logged(r) : errorLog[k].hasEndpointUrl \in BOOLEAN

\* C16: a run that has ended in a rejection has written error_report.json
\* into its own run directory and has appended exactly one entry to the
\* central error log.
C16_OneReportPerFailedRun ==
  \A r \in Runs :
    (run[r].pc = "done" /\ run[r].outcome = "rejected")
    => /\ run[r].runFolder \in outputs
       /\ <<run[r].runFolder, "error_report.json">> \in files
       /\ Cardinality(logged(r)) = 1

\* C17: the central error log holds at most 100 entries, and they are the
\* reports appended last, in the order in which they were appended.
C17_LastHundred ==
  /\ Len(lg.errorLog) <= 100
  /\ Len(lg.errorLog) = Min(Len(lg.appended), 100)
  /\ \A k \in 1..Len(lg.errorLog) :
       lg.errorLog[k] = lg.appended[Len(lg.appended) - Len(lg.errorLog) + k]

\* C17, its case: more than 100 reports were appended, two of them dropped.
C17_OldestDropped ==
  /\ lg.writes >= 2
  /\ Len(lg.appended) >= 102
  /\ lg.errorLog[1].timestamp >= 3

\* The message that the catch of a try block puts in front of the error it
\* caught.
wrapOf(block) ==
  IF block = "navigation" THEN NavWrap
  ELSE IF block = "login" THEN LoginWrap
  ELSE IF block = "submission" THEN SubmitWrap
  ELSE Null

\* C18: a run in which a stage failed ends rejected, never resolved, and
\* the error it rejects with is the error of the failing stage, as the catch
\* block of that stage throws it.
C18_RejectsWithStageError ==
  \A r \in Runs :
    run[r].tryBlock # "none"
    => /\ run[r].err # NoError
       /\ run[r].pc = "done" => run[r].outcome = "rejected"
       /\ wrapOf(run[r].tryBlock) # Null
          => outermost(run[r].err) = wrapOf(run[r].tryBlock)

\* C19: when the operation under withBrowserLock has returned or thrown,
\* that is when a run leaves initBrowser, the busy flag is clear; after a
\* failed launch the session is not marked busy.
C19_ReleasedOnEveryExit ==
  [][\A r \in Runs :
       (run[r].pc \in InitPcs /\ run'[r].pc \notin InitPcs \cup {"killed"})
       => ~browserOperationInProgress']_vars

\* C19, its case: a run has ended with the launch failure while the other
\* run has not started; the flag is clear and the other run's acquire will
\* be admitted.
C19_FailedLaunchReleased ==
  \E r \in Runs :
    /\ run[r].pc = "done"
    /\ run[r].err = LaunchError
    /\ ~browserOperationInProgress
    /\ lockAdmits
    /\ \E q \in Runs \ {r} : run[q].pc = "idle"

C21_ThrowsOverrideOrLast ==
  rt.pc = "thrown" => rt.thrown \in {OverrideError, errorOf(rt.calls)}

\* C22: a run whose navigation failed on its first two attempts and
\* succeeded on the third stands before the modal and login stage with no
\* error and no error report, and the wait before its second retry was
\* strictly longer than the wait before the first.
C22_ThirdAttemptSucceeds ==
  \A r \in Runs :
    (run[r].pc = "login" /\ run[r].retries = 2)
    => /\ run[r].err = NoError
       /\ <<run[r].runFolder, "error_report.json">> \notin files
       /\ logged(r) = {}
       /\ Len(run[r].waits) = 2
       /\ run[r].waits[1] < run[r].waits[2]

\* C22, its case: the third attempt of the navigation succeeded after two
\* waits, the first with the largest jitter and the second with none.
C22_FailedTwiceThenLoaded ==
  \E r \in Runs :
    /\ run[r].pc = "login"
    /\ run[r].retries = 2
    /\ run[r].waits[1] = (NavInitialDelay * 3) \div 2 + 999 * NavUnit
    /\ run[r].waits[2] = (run[r].waits[1] * 3) \div 2

\* The instant at which run r was started, as its run folder names it.
startOf(r) == run[r].runFolder.seconds * 1000 + run[r].runFolder.millis

\* The places of a run before the target page has loaded.
BeforeNavigated == InitPcs \cup {"context", "probe", "nav", "nav_wait"}

\* C23: a run that has not loaded the target page when 30 s have passed
\* since its start has a safety timer that is due, so that the process is
\* forced to exit.
C23_ExitUnlessNavigated ==
  \A r \in Runs :
    (run[r].pc \in BeforeNavigated /\ now >= startOf(r) + ShortSafetyMs)
    => /\ run[r].safetyTimeout # NoTimer
       /\ run[r].safetyTimeout <= now

\* The stages in their order; the three places inside initBrowser and the
\* two of the navigation retry each count as one stage.
stageRank(pc) ==
  CASE pc = "idle" -> 0
    [] pc \in InitPcs -> 1
    [] pc = "context" -> 2
    [] pc = "probe" -> 3
    [] pc \in {"nav", "nav_wait"} -> 4
    [] pc = "login" -> 5
    [] pc = "fill" -> 6
    [] pc = "consent" -> 7
    [] pc = "submit" -> 8
    [] pc = "classify" -> 9
    [] pc = "deliver" -> 10
    [] pc = "closing" -> 11
    [] OTHER -> 12

\* C24: a run passes its stages in order, one after the other: each step
\* leaves it in its stage, takes it to the next one, or ends it (close,
\* rejection, process exit).  The submit click happens only at a run that
\* has passed the consent stage, and the callback is sent only once the
\* document is classified and result.json written.
C24_StagesInOrder ==
  [][\A r \in Runs :
       LET a == stageRank(run[r].pc)
           b == stageRank(run'[r].pc)
       IN /\ b \in {a, a + 1} \/ (b >= 11 /\ b >= a)
          /\ run'[r].pc = "submit" => run[r].pc \in {"consent", "submit"}
          /\ run'[r].posts > run[r].posts
             => /\ run[r].pc = "deliver"
                /\ run[r].proofOfMilitaryServiceFound # Null
                /\ <<run[r].runFolder, "result.json">> \in files]_vars

\* C24, its case: a run has passed every stage, the delivery included, and
\* is closed.
C24_AllStagesPassed ==
  \E r \in Runs :
    /\ run[r].pc = "done"
    /\ run[r].outcome = "resolved"
    /\ run[r].posts = 1
    /\ run[r].result.pdfFileName # Null
    /\ run[r].tryBlock = "none"

\* C25: the consent stage tries the direct check, then the label click, then
\* each checkbox of the page, in that order; no strategy is tried after one
\* succeeded; and the stage fails only after all three strategies were
\* attempted and failed, then with the consent error.
strategiesTried == {cs.tried[i].strategy : i \in DOMAIN cs.tried}
C25_StrategiesInOrder ==
  /\ \A i, j \in DOMAIN cs.tried :
       i < j => /\ ~cs.tried[i].ok
                /\ <<cs.tried[i].strategy, cs.tried[j].strategy>> \in
                     {<<"a", "b">>, <<"a", "c">>, <<"b", "c">>, <<"c", "c">>}
  /\ cs.pc = "failed" =>
       /\ strategiesTried = {"a", "b", "c"}
       /\ \A i \in DOMAIN cs.tried : ~cs.tried[i].ok
       /\ cs.err = CheckboxError

\* C26: a failure of the connectivity check does not abort the run: the run
\* that leaves the connectivity check goes on to the primary navigation.
C26_ProbeBestEffort ==
  [][\A r \in Runs :
       (run[r].pc = "probe" /\ run'[r].pc # "probe") => run'[r].pc = "nav"]_vars

\* C27: a run goes on from the primary navigation to the modal, the login and
\* the form only on a page that is the request form: a loaded page with
\* access-denied text or without the expected markers is a failed attempt.
C27_LoadedPageVerified ==
  \A r \in Runs : run[r].pc = "login" => run[r].content = "scra"

\* C28: a fatal failure in the navigation, the login, the field population,
\* the consent or the submission has a screenshot named after that stage
\* taken by the stage before the error leaves it.
PageStages == {"probe", "nav", "login", "fill", "consent", "submit", "classify", "deliver"}
C28_StageScreenshotOnFailure ==
  [][\A r \in Runs :
       (run[r].pc \in PageStages /\ run[r].err = NoError /\ run'[r].err # NoError)
         => run'[r].errorShot # Null]_vars

\* C29: after each network event the persisted log is well formed and holds
\* the complete in-memory sequence of events in their order of arrival, and
\* the log the file held before is a prefix of the one it holds now.
IsPrefix(a, b) == Len(a) <= Len(b) /\ SubSeq(b, 1, Len(a)) = a
C29_PersistedLogComplete ==
  nl.networkEvents # <<>> =>
    /\ nl.file = stringify(parsed(nl.file))
    /\ parsed(nl.file) = nl.networkEvents
    /\ IsPrefix(parsed(nl.previous), parsed(nl.file))

\* C29, its case: three events, a failed request among them, are on file.
C29_ThreeEventsLogged ==
  /\ Len(parsed(nl.file)) >= 3
  /\ \E i \in DOMAIN nl.networkEvents : nl.networkEvents[i].type = "request_failed"
  /\ nl.networkEvents[1] # nl.networkEvents[2]

\* C30: a request whose run has started has its one response already, the
\* same whatever the run comes to, and a run that fails leaves no rejection
\* unhandled.
C30_AcknowledgedBeforeRun ==
  \A q \in Requests :
    /\ sv.req[q].run # "none" => Len(sv.req[q].responses) = 1
    /\ Len(sv.req[q].responses) <= 1
    /\ ~sv.req[q].unhandledRejection

\* C31: the destination of the callback POST of a request that came with a
\* non-empty callback URL has no whitespace at its ends and begins with
\* http:// or https://.
C31_AbsoluteHttpUrl ==
  cb.pc = "posted" =>
    LET url == cb.effectiveCallbackUrl
    IN /\ url # <<>>
       /\ ~IsWhitespace(url[1]) /\ ~IsWhitespace(url[Len(url)])
       /\ \/ Len(url) >= 2 /\ SubSeq(url, 1, 2) = <<"http", "://">>
          \/ Len(url) >= 3 /\ SubSeq(url, 1, 3) = <<"http", "s", "://">>

\* C32: a read of an existing artifact in a folder that createRunFolder named
\* is served, not refused as an invalid run folder.
C32_RunFolderAccepted ==
  rf.pc \in {"screenshot", "pdf", "network-log"} => rf.status = 200

\* C33: the browser that a run in progress holds is open until the run's own
\* cleanup closes it, and no two runs hold the same browser.
C33_BrowserOwnedByItsRun ==
  \A r \in Runs :
    (run[r].browser # NullBrowser /\ run[r].pc \notin {"closing", "done", "killed"})
      => /\ ~processExited => run[r].browser \in openBrowsers
         /\ \A q \in Runs \ {r} : run[q].browser # run[r].browser

\* C34: the busy flag is set as long as an operation that withBrowserLock
\* admitted is executing, whether or not an earlier holder was overridden.
C34_FlagWhileOperating ==
  (~processExited /\ \E r \in Runs : run[r].pc \in InitPcs)
    => browserOperationInProgress

\* C35: a run whose callback POST was answered with a 2xx status is not
\* recorded as a delivery failure: it has no callback_error.json and its
\* error is not 'Failed to send results'.
C35_DeliveredNotFailed ==
  \A r \in Runs :
    (run[r].posts > 0 /\ postResolves(run[r].postResp))
      => /\ run[r].delivery # "failed"
         /\ <<run[r].runFolder, "callback_error.json">> \notin files
         /\ \A i \in DOMAIN run[r].err : run[r].err[i] # SendWrap

\* C36: a run that has returned or thrown while the process lives has no
\* safety timer pending any more.
C36_NoTimerAfterEnd ==
  \A r \in Runs :
    (run[r].pc = "done" /\ ~processExited) => run[r].safetyTimeout = NoTimer

\* C37: the report of every run that has appended to the central error log
\* is in the log, once and with the run's error, whatever other runs have
\* appended before or after it.
C37_NoReportLost ==
  \A r \in Runs :
    run[r].tryBlock # "none"
      => /\ Cardinality(logged(r)) = 1
         /\ \A k \in logged(r) : errorLog[k] = errorReport(r, run[r])

\* C37, its case: two runs in one process have failed, the second while the
\* first still had its browser to close, and the log holds both reports.
C37_TwoConcurrentFailures ==
  /\ run["r1"].tryBlock # "none" /\ run["r2"].tryBlock # "none"
  /\ run["r1"].pc = "closing"
  /\ Len(errorLog) = 2
  /\ errorLog[1].run # errorLog[2].run

\* A table is open after line k: a 'Start Date' line at or before k, and no
\* 'Service Component' line from there to k.
tableOpen(lines, k) ==
  \E j \in 1..k : /\ HasStartDate(lines[j])
                  /\ \A m \in j..k : ~HasServiceComponent(lines[m])

\* The lines outside every table: no table is open when the line is reached
\* and the line does not start one.
OutsideLines(lines) ==
  {k \in 1..Len(lines) : ~HasStartDate(lines[k]) /\ (k = 1 \/ ~tableOpen(lines, k - 1))}

\* C38: the determination does not depend on what the lines outside the
\* tables say (whatever such a line is replaced with, short of a table
\* start, the determination is the same), and a text without a table start
\* is classified No.
C38_OutsideLinesIgnored ==
  cl.pc = "classified" =>
    /\ \A k \in OutsideLines(cl.text) :
         \A line \in SUBSET (Tokens \ {"Start Date"}) :
           proofOfMilitaryServiceFound([cl.text EXCEPT ![k] = line]) = cl.found
    /\ (\A k \in 1..Len(cl.text) : ~HasStartDate(cl.text[k])) => cl.found = "No"

\* C38, its case: a value on the line after a table that opened and closed
\* on one line, classified No.
C38_ValueAfterTableEnd ==
  /\ cl.pc = "classified"
  /\ cl.text = << {"Start Date", "Service Component"}, {"Army"} >>
  /\ cl.found = "No"

\* C39: retry sleeps for the current delay and recomputes it afterwards: the
\* wait before the first retry is initialDelay (for a positive initialDelay
\* that does not exceed maxDelay), and each later wait is
\* min(previous wait * 1.5 + jitter, maxDelay) for a jitter in [0, 1000).
C39_SleepsThenRecomputes ==
  /\ (Len(rt.waits) >= 1 /\ 0 < rt.initialDelay /\ rt.initialDelay <= rt.maxDelay)
       => rt.waits[1] = rt.initialDelay
  /\ \A k \in 2..Len(rt.waits) :
       \E jitter \in Jitters :
         rt.waits[k] = Min((rt.waits[k - 1] * 3) \div 2 + jitter, rt.maxDelay)

====
